---- MODULE Spec2Model ----
(***************************************************************************)
(* Model of src/bot.py: the per-user conversation history kept in          *)
(* context.user_data, the handle_message pipeline (typing indicator,       *)
(* request assembly, backend call, append, trim, reply) and the /clear     *)
(* command.                                                                *)
(*                                                                         *)
(* Every handler invocation is a task.  A task gives up the event loop     *)
(* only where the code awaits a transport call (lines 186, 198, 229, 232,  *)
(* 238); call_openai_api awaits nothing (openai.ChatCompletion.create is a *)
(* blocking call), so lines 202-226 run without another task interleaving. *)
(* Faults are injected where the code calls a collaborator: the transport  *)
(* sends and the backend call.                                             *)
(***************************************************************************)
EXTENDS Integers, Sequences, FiniteSets, TLC

\* ------------------------------------------------------------------ bounds
MaxMsgs == 2        \* text messages each user sends (specification Spec)
MaxFaults == 2      \* faults injected in one run (specification Spec)
LongRun == 25       \* text messages of the one user (specification SpecLong)
LongFaults == 1     \* faults injected in one run (specification SpecLong)

\* --------------------------------------------------------- program values
HistoryMax == 40    \* line 223: len(conversation_history) > 40

Users == {"u1", "u2"}
LongUser == "u1"
Tasks == {"t1", "t2"}      \* handler invocations that can be in flight
TaskOrder == <<"t1", "t2">>

\* Texts are triples <<kind, owner, n>>.
UserText(u, k) == <<"msg", u, k>>           \* the k-th text user u sends
Generated(txt) == <<"gen", txt[2], txt[3]>> \* the backend's text for it
EmptyText == <<"empty", "", 0>>             \* "" (content of no length)
NoneVal == <<"None", "", 0>>                \* Python None
ErrDetail(class) == <<"err", class, 0>>     \* str(e) of an exception
UnableMsg == <<"fixed", "unable", 0>>       \* lines 232-234
SystemErrorMsg == <<"fixed", "system_error", 0>>  \* lines 238-241
ClearedMsg == <<"fixed", "cleared", 0>>     \* line 186
SYSTEM_INSTRUCTIONS == <<"fixed", "system_instructions", 0>>  \* lines 46-126

Turn(role, content) == [role |-> role, content |-> content]

\* What the backend library does on one call (lines 250-257 and the
\* exception classes of lines 259-265).
Outcomes == {"ok", "empty", "APIError", "AuthenticationError", "Exception"}

\* Sync positions of a handler that awaits between its two appends.
SyncPcsSplitAppend == {"build", "call", "branch", "append_user", "trim", "done", "raised"}

\* Positions of a task.  At an await position the task has given up the
\* event loop; at a sync position it holds it (after the last await returns
\* the handler runs to its end, and a fault that leaves it is handed to
\* error_handler, without another task running in between).
AwaitPcs == {"typing", "reply", "reply_err", "reply_sys", "clear_reply"}
SyncPcs == {"build", "call", "branch", "append_user", "append_assistant", "trim",
            "done", "raised"}

VARIABLES userData,      \* user -> that user's context.user_data dict
          task,          \* task -> the invocation's locals and position
          seq,           \* user -> number of texts sent so far
          quota,         \* user -> texts the user may still send
          faults,        \* faults that may still be injected
          slots,         \* invocations the application lets run at once
          exchanges      \* user -> the successful exchanges, in order

vars == <<userData, task, seq, quota, faults, slots, exchanges>>

\* ------------------------------------------------------------ dict helpers
EmptyDict == [k \in {} |-> NoneVal]
DictSet(d, k, v) == [x \in (DOMAIN d) \cup {k} |-> IF x = k THEN v ELSE d[x]]

\* The list handle_message reads: context.user_data['messages'] (line 205),
\* empty when the key is not there yet (lines 202-203).
History(u) == IF "messages" \in DOMAIN userData[u] THEN userData[u]["messages"] ELSE <<>>

\* ------------------------------------------------------ the code's pieces
\* A request assembled without the system prompt.
AssembleWithoutSystem(conversation_history, user_message) ==
    conversation_history \o <<Turn("user", user_message)>>

\* Lines 208-212: system prompt, the history unpacked, the new user turn.
AssembleRequest(conversation_history, user_message) ==
    <<Turn("system", SYSTEM_INSTRUCTIONS)>> \o conversation_history
        \o <<Turn("user", user_message)>>

\* call_openai_api with the single handler `except Exception`: every class
\* of failure logs the same line.
call_openai_api_one_handler(outcome, messages) ==
    CASE outcome = "ok" ->
           [raised |-> FALSE, value |-> Generated(messages[Len(messages)].content),
            log |-> <<>>]
      [] outcome = "empty" ->
           [raised |-> FALSE, value |-> EmptyText, log |-> <<>>]
      [] OTHER ->
           [raised |-> FALSE, value |-> NoneVal,
            log |-> << <<"error", "Unexpected error calling OpenAI", ErrDetail(outcome)>> >>]

\* Lines 249-267: the response text, or None with the class's log line;
\* raised is TRUE when an exception leaves call_openai_api.
call_openai_api(outcome, messages) ==
    CASE outcome = "ok" ->
           [raised |-> FALSE, value |-> Generated(messages[Len(messages)].content),
            log |-> <<>>]
      [] outcome = "empty" ->
           [raised |-> FALSE, value |-> EmptyText, log |-> <<>>]
      [] outcome = "APIError" ->
           [raised |-> FALSE, value |-> NoneVal,
            log |-> << <<"error", "OpenAI API error", ErrDetail(outcome)>> >>]
      [] outcome = "AuthenticationError" ->
           [raised |-> FALSE, value |-> NoneVal,
            log |-> << <<"error", "OpenAI API authentication failed", NoneVal>> >>]
      [] OTHER ->
           [raised |-> FALSE, value |-> NoneVal,
            log |-> << <<"error", "Unexpected error calling OpenAI", ErrDetail(outcome)>> >>]

\* `if response is not None:` for `if response:`.
IsNotNone(response) == response # NoneVal

\* A test that takes every response for text.
AlwaysTruthy(response) == TRUE

\* Line 217: `if response:` (None and "" are falsy).
Truthy(response) == response \notin {NoneVal, EmptyText}

\* A trim that keeps the first 40 ([:40] for [-40:]).
TrimHead(conversation_history) ==
    IF Len(conversation_history) > HistoryMax
    THEN SubSeq(conversation_history, 1, HistoryMax)
    ELSE conversation_history

\* A trim that keeps the last 39 ([-39:] for [-40:]).
TrimOdd(conversation_history) ==
    IF Len(conversation_history) > HistoryMax
    THEN SubSeq(conversation_history, Len(conversation_history) - HistoryMax + 2,
                Len(conversation_history))
    ELSE conversation_history

\* No trim at all.
TrimNone(conversation_history) == conversation_history

\* Lines 223-224: keep the last 40.
Trim(conversation_history) ==
    IF Len(conversation_history) > HistoryMax
    THEN SubSeq(conversation_history, Len(conversation_history) - HistoryMax + 1,
                Len(conversation_history))
    ELSE conversation_history

\* Replies that carry the exception's text.
ReplyTextLeaky(pc, response) ==
    CASE pc = "reply" -> response
      [] pc = "reply_err" -> ErrDetail("backend")
      [] pc = "reply_sys" -> ErrDetail("transport")
      [] OTHER -> ClearedMsg

\* The text each reply_text call carries: line 229, lines 232-234, 238-241.
ReplyText(pc, response) ==
    CASE pc = "reply" -> response
      [] pc = "reply_err" -> UnableMsg
      [] pc = "reply_sys" -> SystemErrorMsg
      [] OTHER -> ClearedMsg

\* Lines 183-184: the dict after clear_history's test and assignment.
ClearUserData(user_data, user_id) ==
    IF user_id \in DOMAIN user_data
    THEN DictSet(user_data, user_id, [messages |-> <<>>])
    ELSE user_data

\* A clear_history that assigns into the user's entry without the test of
\* line 183: a KeyError when the entry is not there.
clear_history_unguarded(user_data, user_id) ==
    IF user_id \in DOMAIN user_data
    THEN [raised |-> FALSE, data |-> DictSet(user_data, user_id, [messages |-> <<>>])]
    ELSE [raised |-> TRUE, data |-> user_data]

\* Lines 180-184 as a whole: the dict they leave, and whether they raise.
clear_history_step(user_data, user_id) ==
    [raised |-> FALSE, data |-> ClearUserData(user_data, user_id)]

\* One dict shared by every user.
SharedUserData(user_id) == "u1"

\* context.user_data is the dict of the update's effective user.
UserDataOf(user_id) == user_id

\* A try block that also encloses line 198.
CaughtEverywhere(pc) == "reply_sys"

\* A handler without the try block.
NotCaught(pc) == "raised"

\* Where a handler goes on when a call made at position pc raises: inside the
\* try block of handle_message (lines 200-234) the fault is caught at line
\* 236, logged, and the system error text is sent at line 238; anywhere else
\* (lines 198, 238 and clear_history's line 186) it leaves the handler.
TryPcs == {"build", "call", "branch", "append_user", "append_assistant", "trim",
           "reply", "reply_err"}
Caught(pc) == IF pc \in TryPcs THEN "reply_sys" ELSE "raised"

\* --------------------------------------------------------------- the state
IdleTask ==
    [pc |-> "idle", kind |-> "none", user_id |-> "u1", user_message |-> NoneVal,
     conversation_history |-> <<>>, messages |-> <<>>, response |-> NoneVal,
     outcome |-> "none", delivered |-> NoneVal, faultAt |-> {}, logged |-> <<>>,
     indicator |-> FALSE, calls |-> 0]

InitBase ==
    /\ userData = [u \in Users |-> EmptyDict]
    /\ task = [t \in Tasks |-> IdleTask]
    /\ seq = [u \in Users |-> 0]
    /\ exchanges = [u \in Users |-> <<>>]

Init ==
    /\ InitBase
    /\ quota = [u \in Users |-> MaxMsgs]
    /\ faults = MaxFaults
    /\ slots = Cardinality(Tasks)

InitLong ==
    /\ InitBase
    /\ quota = [u \in Users |-> IF u = LongUser THEN LongRun ELSE 0]
    /\ faults = LongFaults
    /\ slots = 1

Busy == \E t \in Tasks : task[t].pc \in SyncPcs
InFlight == {t \in Tasks : task[t].pc # "idle"}
\* A new invocation takes the first idle task, when the application has a
\* slot for it.
CanStart(t) ==
    /\ ~Busy
    /\ Cardinality(InFlight) < slots
    /\ \E i \in DOMAIN TaskOrder :
          /\ TaskOrder[i] = t
          /\ task[t].pc = "idle"
          /\ \A j \in 1..(i - 1) : task[TaskOrder[j]].pc # "idle"

\* ------------------------------------------------------------- the actions
\* A handle_message that does not send the typing indicator.
StartMessageNoTyping(t, u) ==
    /\ CanStart(t) /\ quota[u] > 0
    /\ quota' = [quota EXCEPT ![u] = @ - 1]
    /\ seq' = [seq EXCEPT ![u] = @ + 1]
    /\ task' = [task EXCEPT ![t] =
          [IdleTask EXCEPT !.pc = "build", !.kind = "msg", !.user_id = u,
                           !.user_message = UserText(u, seq[u] + 1),
                           !.logged = << <<"info", "Message from", UserText(u, seq[u] + 1)>> >>]]
    /\ UNCHANGED <<userData, faults, exchanges, slots>>

\* Lines 190-198: handle_message is entered, logs the text and awaits the
\* typing indicator.
StartMessage(t, u) ==
    /\ CanStart(t) /\ quota[u] > 0
    /\ quota' = [quota EXCEPT ![u] = @ - 1]
    /\ seq' = [seq EXCEPT ![u] = @ + 1]
    /\ task' = [task EXCEPT ![t] =
          [IdleTask EXCEPT !.pc = "typing", !.kind = "msg", !.user_id = u,
                           !.user_message = UserText(u, seq[u] + 1),
                           !.logged = << <<"info", "Message from", UserText(u, seq[u] + 1)>> >>]]
    /\ UNCHANGED <<userData, faults, exchanges, slots>>

\* Line 198 returns.
TypingSent(t) ==
    /\ ~Busy /\ task[t].pc = "typing"
    /\ task' = [task EXCEPT ![t].pc = "build", ![t].indicator = TRUE]
    /\ UNCHANGED <<userData, seq, quota, faults, exchanges, slots>>

\* Line 198 raises: it is outside the try block, the fault leaves the handler.
TypingFault(t) ==
    /\ ~Busy /\ task[t].pc = "typing" /\ faults > 0
    /\ faults' = faults - 1
    /\ task' = [task EXCEPT ![t].pc = Caught("typing"), ![t].faultAt = @ \cup {"typing"}]
    /\ UNCHANGED <<userData, seq, quota, exchanges, slots>>

\* A Build that puts the new user turn into the stored list before the call.
BuildEager(t) ==
    LET u == UserDataOf(task[t].user_id)
        h == IF "messages" \in DOMAIN userData[u] THEN userData[u]["messages"] ELSE <<>>
        h2 == Append(h, Turn("user", task[t].user_message))
    IN  /\ task[t].pc = "build"
        /\ userData' = [userData EXCEPT ![u] = DictSet(@, "messages", h2)]
        /\ task' = [task EXCEPT ![t].pc = "call",
                                ![t].conversation_history = h2,
                                ![t].messages = <<Turn("system", SYSTEM_INSTRUCTIONS)>> \o h2]
        /\ UNCHANGED <<seq, quota, faults, exchanges, slots>>

\* Lines 202-212: create the list if needed, take it, assemble the request.
Build(t) ==
    LET u == UserDataOf(task[t].user_id)
        ud == IF "messages" \notin DOMAIN userData[u]
              THEN DictSet(userData[u], "messages", <<>>)
              ELSE userData[u]
    IN  /\ task[t].pc = "build"
        /\ userData' = [userData EXCEPT ![u] = ud]
        /\ task' = [task EXCEPT ![t].pc = "call",
                                ![t].conversation_history = ud["messages"],
                                ![t].messages = AssembleRequest(ud["messages"], task[t].user_message)]
        /\ UNCHANGED <<seq, quota, faults, exchanges, slots>>

\* Line 215 with lines 244-267; an exception leaving call_openai_api is
\* caught at line 236, logged and answered with the system error text.
Call(t, o) ==
    LET r == call_openai_api(o, task[t].messages)
        u == task[t].user_id
    IN  /\ task[t].pc = "call"
        /\ o = "ok" \/ faults > 0
        /\ faults' = IF o = "ok" THEN faults ELSE faults - 1
        /\ task' = [task EXCEPT
              ![t].outcome = o,
              ![t].calls = @ + 1,
              ![t].response = IF r.raised THEN @ ELSE r.value,
              ![t].logged = IF r.raised /\ Caught("call") # "raised"
                            THEN @ \o r.log \o << <<"error", "Error processing message", ErrDetail(o)>> >>
                            ELSE @ \o r.log,
              ![t].faultAt = IF r.raised THEN @ \cup {"call"} ELSE @,
              ![t].pc = IF r.raised THEN Caught("call") ELSE "branch"]
        /\ exchanges' = IF o = "ok"
                        THEN [exchanges EXCEPT ![u] =
                                Append(@, <<task[t].user_message, Generated(task[t].user_message)>>)]
                        ELSE exchanges
        /\ UNCHANGED <<userData, seq, quota, slots>>

\* A branch that calls the backend again when it got no text.
BranchRetry(t) ==
    /\ task[t].pc = "branch"
    /\ task' = [task EXCEPT ![t].pc = IF Truthy(task[t].response) THEN "append_user"
                                      ELSE "call"]
    /\ UNCHANGED <<userData, seq, quota, faults, exchanges, slots>>

\* A branch that sends the reply without recording the exchange first.
BranchReplyFirst(t) ==
    /\ task[t].pc = "branch"
    /\ task' = [task EXCEPT ![t].pc = IF Truthy(task[t].response) THEN "reply"
                                      ELSE "reply_err"]
    /\ UNCHANGED <<userData, seq, quota, faults, exchanges, slots>>

\* Lines 217 and 231.
Branch(t) ==
    /\ task[t].pc = "branch"
    /\ task' = [task EXCEPT ![t].pc = IF Truthy(task[t].response) THEN "append_user"
                                      ELSE "reply_err"]
    /\ UNCHANGED <<userData, seq, quota, faults, exchanges, slots>>

\* Line 219: append to the list object, which is the stored list.
AppendUser(t) ==
    LET u == UserDataOf(task[t].user_id)
        h == Append(task[t].conversation_history, Turn("user", task[t].user_message))
    IN  /\ task[t].pc = "append_user"
        /\ task' = [task EXCEPT ![t].pc = "append_assistant", ![t].conversation_history = h]
        /\ userData' = [userData EXCEPT ![u] = DictSet(@, "messages", h)]
        /\ UNCHANGED <<seq, quota, faults, exchanges, slots>>

\* Line 220.
AppendAssistant(t) ==
    LET u == UserDataOf(task[t].user_id)
        h == Append(task[t].conversation_history, Turn("assistant", task[t].response))
    IN  /\ task[t].pc = "append_assistant"
        /\ task' = [task EXCEPT ![t].pc = "trim", ![t].conversation_history = h]
        /\ userData' = [userData EXCEPT ![u] = DictSet(@, "messages", h)]
        /\ UNCHANGED <<seq, quota, faults, exchanges, slots>>

\* Lines 223-229: trim, store, then await the reply.
TrimStore(t) ==
    LET u == UserDataOf(task[t].user_id)
        h == Trim(task[t].conversation_history)
    IN  /\ task[t].pc = "trim"
        /\ task' = [task EXCEPT ![t].pc = "reply", ![t].conversation_history = h]
        /\ userData' = [userData EXCEPT ![u] = DictSet(@, "messages", h)]
        /\ UNCHANGED <<seq, quota, faults, exchanges, slots>>

\* A reply_text of handle_message returns (lines 229-230, 232-234, 238-241).
ReplyDelivered(t) ==
    /\ ~Busy /\ task[t].pc \in {"reply", "reply_err", "reply_sys"}
    /\ task' = [task EXCEPT
          ![t].pc = "done",
          ![t].delivered = ReplyText(task[t].pc, task[t].response),
          ![t].logged = IF task[t].pc = "reply"
                        THEN @ \o << <<"info", "Response sent", NoneVal>> >> ELSE @]
    /\ UNCHANGED <<userData, seq, quota, faults, exchanges, slots>>

\* A reply_text of handle_message raises: inside the try block (lines 229,
\* 232) the fault is caught at line 236; at line 238 it leaves the handler.
ReplyFault(t) ==
    /\ ~Busy /\ task[t].pc \in {"reply", "reply_err", "reply_sys"} /\ faults > 0
    /\ faults' = faults - 1
    /\ task' = [task EXCEPT
          ![t].pc = Caught(task[t].pc),
          ![t].faultAt = @ \cup {task[t].pc},
          ![t].logged = IF Caught(task[t].pc) = "raised" THEN @
                        ELSE @ \o << <<"error", "Error processing message", ErrDetail("transport")>> >>]
    /\ UNCHANGED <<userData, seq, quota, exchanges, slots>>

\* Lines 178-186: clear_history up to its reply.
StartClear(t, u) ==
    LET r == clear_history_step(userData[UserDataOf(u)], u)
    IN  /\ CanStart(t)
        /\ userData' = [userData EXCEPT ![UserDataOf(u)] = r.data]
        /\ task' = [task EXCEPT ![t] =
              [IdleTask EXCEPT !.pc = IF r.raised THEN Caught("clear") ELSE "clear_reply",
                               !.faultAt = IF r.raised THEN {"clear"} ELSE {},
                               !.kind = "clear", !.user_id = u]]
        /\ UNCHANGED <<seq, quota, faults, exchanges, slots>>

\* Lines 186-187: the confirmation is sent and the clearing is logged.
ClearDelivered(t) ==
    /\ ~Busy /\ task[t].pc = "clear_reply"
    /\ task' = [task EXCEPT ![t].pc = "done",
                            ![t].delivered = ReplyText(task[t].pc, task[t].response),
                            ![t].logged = @ \o << <<"info", "Conversation history cleared", NoneVal>> >>]
    /\ UNCHANGED <<userData, seq, quota, faults, exchanges, slots>>

\* Line 186 raises: clear_history has no try block.
ClearFault(t) ==
    /\ ~Busy /\ task[t].pc = "clear_reply" /\ faults > 0
    /\ faults' = faults - 1
    /\ task' = [task EXCEPT ![t].pc = Caught("clear_reply"), ![t].faultAt = @ \cup {"clear_reply"}]
    /\ UNCHANGED <<userData, seq, quota, exchanges, slots>>

\* The handler returns (after line 230, 234 or 241, or line 187): its locals
\* are gone.
Return(t) ==
    /\ task[t].pc = "done"
    /\ task' = [task EXCEPT ![t] = IdleTask]
    /\ UNCHANGED <<userData, seq, quota, faults, exchanges, slots>>

\* Lines 270-272: the application hands a fault that left a handler to
\* error_handler, which logs it.
error_handler(t) ==
    /\ task[t].pc = "raised"
    /\ task' = [task EXCEPT ![t] = IdleTask]
    /\ UNCHANGED <<userData, seq, quota, faults, exchanges, slots>>

Next ==
    \/ \E t \in Tasks, u \in Users : StartMessage(t, u)
    \/ \E t \in Tasks : TypingSent(t)
    \/ \E t \in Tasks : TypingFault(t)
    \/ \E t \in Tasks : Build(t)
    \/ \E t \in Tasks, o \in Outcomes : Call(t, o)
    \/ \E t \in Tasks : Branch(t)
    \/ \E t \in Tasks : AppendUser(t)
    \/ \E t \in Tasks : AppendAssistant(t)
    \/ \E t \in Tasks : TrimStore(t)
    \/ \E t \in Tasks : ReplyDelivered(t)
    \/ \E t \in Tasks : ReplyFault(t)
    \/ \E t \in Tasks, u \in Users : StartClear(t, u)
    \/ \E t \in Tasks : ClearDelivered(t)
    \/ \E t \in Tasks : ClearFault(t)
    \/ \E t \in Tasks : Return(t)
    \/ \E t \in Tasks : error_handler(t)

Spec == Init /\ [][Next]_vars
SpecLong == InitLong /\ [][Next]_vars

\* ------------------------------------------------------- claim vocabulary
Range(s) == {s[i] : i \in DOMAIN s}
LastN(s, n) == IF Len(s) > n THEN SubSeq(s, Len(s) - n + 1, Len(s)) ELSE s
IsSuffix(s, full) == Len(s) <= Len(full) /\ s = LastN(full, Len(s))
Min2(a, b) == IF a < b THEN a ELSE b
\* The turns of a sequence of (user text, generated text) pairs.
Flatten(pairs) ==
    [i \in 1..(2 * Len(pairs)) |->
        IF i % 2 = 1 THEN Turn("user", pairs[(i + 1) \div 2][1])
        ELSE Turn("assistant", pairs[i \div 2][2])]
PairsKept == HistoryMax \div 2
BackendFaults == {"APIError", "AuthenticationError", "Exception"}
MsgTasks == {t \in Tasks : task[t].kind = "msg"}
\* The history the request was assembled from.
PreCall(t) == SubSeq(task[t].messages, 2, Len(task[t].messages) - 1)
AfterCall == {"branch", "append_user", "append_assistant", "trim", "reply", "reply_err",
              "reply_sys", "done", "raised"}

C2_FailedCallKeepsHistory ==
    \A t \in MsgTasks :
        (task[t].outcome \in BackendFaults /\ task[t].pc \in AfterCall)
            => History(task[t].user_id) = PreCall(t)

\* A turn that failed on a history of some length has ended.
C2_Witness ==
    \E t \in MsgTasks :
        /\ task[t].outcome = "AuthenticationError" /\ task[t].pc = "done"
        /\ task[t].delivered = UnableMsg
        /\ Len(History(task[t].user_id)) >= 2

\* C3: after clear_history has run for a user, the history handle_message
\* reads for that user is empty.
C3_ClearEmptiesHistory ==
    \A t \in Tasks :
        (task[t].kind = "clear" /\ task[t].pc \in {"clear_reply", "done"})
            => History(task[t].user_id) = <<>>

\* C4: a user's history holds only that user's own turns and is exactly the
\* record of that user's own successful exchanges, whatever the other users'
\* tasks do; when two users each complete their one exchange side by side,
\* each history is exactly that user's own exchange.
C4_UsersAreIsolated ==
    /\ \A u \in Users : \A i \in DOMAIN History(u) : History(u)[i].content[2] = u
    /\ ~Busy => \A u \in Users : History(u) = Flatten(LastN(exchanges[u], PairsKept))
    /\ \A t1, t2 \in MsgTasks :
          (/\ task[t1].user_id # task[t2].user_id
           /\ task[t1].pc = "reply" /\ task[t2].pc = "reply"
           /\ Len(exchanges[task[t1].user_id]) = 1
           /\ Len(exchanges[task[t2].user_id]) = 1)
          => History(task[t1].user_id)
                = <<Turn("user", task[t1].user_message),
                    Turn("assistant", Generated(task[t1].user_message))>>

\* Two users' turns have both succeeded and both await their reply.
C4_Witness ==
    \E t1, t2 \in MsgTasks :
        /\ task[t1].user_id # task[t2].user_id
        /\ task[t1].pc = "reply" /\ task[t2].pc = "reply"
        /\ Len(History(task[t1].user_id)) = 2 /\ Len(History(task[t2].user_id)) = 2

\* C5: when the backend is invoked the request is the system prompt, then
\* the L stored turns in stored order, then one new user turn with the
\* incoming text, L + 2 messages in all, and the new user turn is not in the
\* stored history.
C5_RequestShape ==
    \A t \in MsgTasks :
        task[t].pc = "call" =>
            LET h == History(task[t].user_id)
                new == Turn("user", task[t].user_message)
            IN  /\ Len(task[t].messages) = Len(h) + 2
                /\ task[t].messages[1] = Turn("system", SYSTEM_INSTRUCTIONS)
                /\ SubSeq(task[t].messages, 2, Len(h) + 1) = h
                /\ task[t].messages[Len(h) + 2] = new
                /\ new \notin Range(h)
                /\ \A i \in DOMAIN h : h[i].role # "system"

\* The backend is about to be invoked on a history of two turns.
C5_Witness ==
    \E t \in MsgTasks : task[t].pc = "call" /\ Len(History(task[t].user_id)) = 2

C7_EvenLength ==
    /\ ~Busy => \A u \in Users : Len(History(u)) % 2 = 0
    /\ \A t \in MsgTasks :
          (task[t].outcome \notin {"ok", "none"} /\ task[t].pc \in SyncPcs)
              => Len(History(task[t].user_id)) % 2 = 0

\* A failed turn has ended on a history that holds an exchange.
C7_Witness ==
    \E t \in MsgTasks :
        /\ task[t].outcome \in BackendFaults /\ task[t].pc = "done"
        /\ Len(History(task[t].user_id)) = 2

\* C8: a turn that ends by sending the 'unable to process' or the 'system
\* error' text has added none of its turns to the history.
C8_NoTurnOnFailure ==
    \A t \in MsgTasks :
        (task[t].pc = "done" /\ task[t].delivered \in {UnableMsg, SystemErrorMsg})
            => /\ Turn("user", task[t].user_message) \notin Range(History(task[t].user_id))
               /\ Turn("assistant", task[t].response) \notin Range(History(task[t].user_id))

\* C9: the text a turn sends is the generated text when the backend
\* succeeded and the reply was delivered, the fixed 'unable' text when the
\* backend failed or generated nothing, the fixed 'system error' text when a
\* fault was caught in the handler, and never an error's details.
C9_SentTextByOutcome ==
    \A t \in MsgTasks :
        /\ task[t].delivered[1] # "err"
        /\ task[t].pc = "done" =>
             task[t].delivered =
                 IF task[t].faultAt # {} THEN SystemErrorMsg
                 ELSE IF task[t].outcome = "ok" THEN Generated(task[t].user_message)
                 ELSE UnableMsg
        /\ task[t].pc # "done" => task[t].delivered = NoneVal

\* The reply of a successful turn failed and the system error text was sent.
C9_Witness ==
    \E t \in MsgTasks :
        /\ task[t].pc = "done" /\ task[t].outcome = "ok"
        /\ task[t].faultAt = {"reply"} /\ task[t].delivered = SystemErrorMsg

\* C10: a fault of the backend call is absorbed and logged and the turn ends
\* with a fixed failure text; a fault leaves handle_message only from the
\* typing indicator (line 198) or from the sending of the system error text
\* (line 238), never from lines 200-234; and while the failed turn awaits its
\* reply, another task that awaits the transport can go on.
C10_FaultsAreCaught ==
    \A t \in MsgTasks :
        /\ task[t].pc = "raised" => task[t].faultAt \cap {"typing", "reply_sys"} # {}
        /\ task[t].faultAt \cap TryPcs # {} =>
              \E i \in DOMAIN task[t].logged :
                  task[t].logged[i][2] = "Error processing message"
        /\ task[t].outcome \in BackendFaults =>
              /\ task[t].pc \in AfterCall
              /\ task[t].response = NoneVal
              /\ \E i \in DOMAIN task[t].logged : task[t].logged[i][1] = "error"
              /\ task[t].pc = "raised" => "reply_sys" \in task[t].faultAt
              /\ task[t].pc = "done" => task[t].delivered \in {UnableMsg, SystemErrorMsg}
              /\ task[t].pc = "reply_err" =>
                    \A t2 \in Tasks \ {t} : task[t2].pc = "typing" => ENABLED TypingSent(t2)

\* A backend fault was absorbed while another user's turn is in flight.
C10_Witness ==
    \E t, t2 \in MsgTasks :
        /\ task[t].outcome = "Exception" /\ task[t].pc = "reply_err"
        /\ task[t2].user_id # task[t].user_id /\ task[t2].pc = "typing"

\* C11: however turns of one user interleave, between handler steps the
\* stored history has even length, each user turn is directly followed by the
\* assistant turn of the same exchange, and every successful exchange of the
\* user is in it exactly once unless the trim to 40 dropped it.
C11_SameUserTurnsNeverCorrupt ==
    ~Busy =>
      \A u \in Users :
        LET h == History(u)
        IN  /\ Len(h) % 2 = 0
            /\ \A i \in DOMAIN h :
                  i % 2 = 1 =>
                      /\ h[i].role = "user" /\ h[i].content[1] = "msg"
                      /\ i + 1 \in DOMAIN h
                      /\ h[i + 1] = Turn("assistant", Generated(h[i].content))
            /\ \A i, j \in DOMAIN h : h[i] = h[j] => i = j
            /\ Len(h) = Min2(2 * Len(exchanges[u]), HistoryMax)
            /\ \A k \in DOMAIN exchanges[u] :
                  k > Len(exchanges[u]) - PairsKept
                      => Turn("user", exchanges[u][k][1]) \in Range(h)

\* Two turns of one user were in flight together and finished in the other
\* order: the second text's exchange is stored before the first's.
C11_Witness ==
    \E u \in Users :
        /\ ~Busy /\ Len(History(u)) = 4
        /\ History(u)[1] = Turn("user", UserText(u, 2))
        /\ History(u)[3] = Turn("user", UserText(u, 1))

\* C12: whichever class of failure the backend raises, the call returns the
\* same None, the turn stores nothing and sends the same fixed text; only the
\* log tells the classes apart, the authentication failure by a message of
\* its own.
C12_FailureClassOnlyInLog ==
    \A t \in MsgTasks :
        task[t].outcome \in BackendFaults =>
            /\ task[t].response = NoneVal
            /\ \A c \in BackendFaults :
                  /\ call_openai_api(c, task[t].messages).value = task[t].response
                  /\ ~call_openai_api(c, task[t].messages).raised
            /\ Turn("user", task[t].user_message) \notin Range(History(task[t].user_id))
            /\ task[t].pc \in {"branch", "reply_err", "reply_sys", "done", "raised"}
            /\ task[t].pc = "done" =>
                  task[t].delivered = IF task[t].faultAt = {} THEN UnableMsg
                                      ELSE SystemErrorMsg
            /\ (\E i \in DOMAIN task[t].logged :
                    task[t].logged[i][2] = "OpenAI API authentication failed")
                  <=> task[t].outcome = "AuthenticationError"
            /\ (\E i \in DOMAIN task[t].logged :
                    task[t].logged[i][2] = "OpenAI API error")
                  <=> task[t].outcome = "APIError"

\* Two turns whose calls failed in different classes both await the same
\* fixed reply.
C12_Witness ==
    \E t1, t2 \in MsgTasks :
        /\ task[t1].outcome = "AuthenticationError" /\ task[t2].outcome = "APIError"
        /\ task[t1].pc = "reply_err" /\ task[t2].pc = "reply_err"

\* C13: the backend is never invoked for a turn whose typing indicator has
\* not been sent.
C13_IndicatorBeforeBackend ==
    \A t \in MsgTasks :
        (task[t].pc = "call" \/ task[t].calls > 0 \/ task[t].outcome # "none"
            \/ task[t].messages # <<>>)
            => task[t].indicator

\* The backend has just been invoked after the indicator was sent.
C13_Witness ==
    \E t \in MsgTasks : task[t].pc = "branch" /\ task[t].calls = 1 /\ task[t].indicator

\* C14: in every state of a user's dict, the one without a session included,
\* clear_history does not raise, and running it a second time leaves the dict
\* the first run left; a clear_history invocation fails only when its reply
\* cannot be sent.
C14_ClearIdempotentTotal ==
    /\ \A u \in Users :
          LET once == clear_history_step(userData[u], u)
              twice == clear_history_step(once.data, u)
          IN  /\ ~once.raised /\ ~twice.raised
              /\ twice.data = once.data
    /\ \A t \in Tasks :
          (task[t].kind = "clear" /\ task[t].pc = "raised")
              => task[t].faultAt = {"clear_reply"}

\* clear_history ran twice for a user who has a history, and once for a user
\* who has no session.
C14_Witness ==
    \E t1, t2 \in Tasks :
        /\ t1 # t2
        /\ task[t1].kind = "clear" /\ task[t2].kind = "clear"
        /\ task[t1].user_id = task[t2].user_id
        /\ task[t1].pc = "clear_reply" /\ task[t2].pc = "clear_reply"
        /\ Len(History(task[t1].user_id)) = 2
        /\ \E u \in Users : DOMAIN userData[u] = {}

\* C15: no stored turn has role system; the roles are user and assistant in
\* turn, user at the oldest position, after the trim to 40 too.
C15_RolesAlternate ==
    \A u \in Users : \A i \in DOMAIN History(u) :
        /\ History(u)[i].role # "system"
        /\ History(u)[i].role = IF i % 2 = 1 THEN "user" ELSE "assistant"
        /\ History(u)[i].content # SYSTEM_INSTRUCTIONS

\* Twenty-one exchanges: the trim dropped the first, the oldest turn kept is
\* the user turn of the second.
C15_Witness ==
    /\ ~Busy /\ Len(exchanges[LongUser]) = 21 /\ seq[LongUser] = 21
    /\ Len(History(LongUser)) = HistoryMax
    /\ History(LongUser)[1] = Turn("user", UserText(LongUser, 2))

\* C16: a turn invokes the backend at most once; after a failed call the
\* turn is past the call and goes on to a failure text.
C16_NoRetry ==
    \A t \in MsgTasks :
        /\ task[t].calls <= 1
        /\ task[t].outcome \notin {"none", "ok"} =>
              /\ task[t].calls = 1
              /\ task[t].pc \in {"branch", "reply_err", "reply_sys", "done", "raised"}

\* A turn whose one call failed has sent the failure text.
C16_Witness ==
    \E t \in MsgTasks :
        /\ task[t].calls = 1 /\ task[t].outcome = "APIError"
        /\ task[t].pc = "done" /\ task[t].delivered = UnableMsg

\* C17: a call that returns empty text without an error appends nothing and
\* sends the fixed 'unable' text, not the empty text.
C17_EmptyTextIsFailure ==
    \A t \in MsgTasks :
        task[t].outcome = "empty" =>
            /\ task[t].pc \in {"branch", "reply_err", "reply_sys", "done", "raised"}
            /\ Turn("user", task[t].user_message) \notin Range(History(task[t].user_id))
            /\ Turn("assistant", EmptyText) \notin Range(History(task[t].user_id))
            /\ task[t].delivered # EmptyText
            /\ (task[t].pc = "done" /\ task[t].faultAt = {}) => task[t].delivered = UnableMsg

\* A turn that got empty text has sent the 'unable' text.
C17_Witness ==
    \E t \in MsgTasks :
        /\ task[t].outcome = "empty" /\ task[t].response = EmptyText
        /\ task[t].pc = "done" /\ task[t].delivered = UnableMsg

\* C18: when the generated text of a turn has been sent, or is being sent,
\* the turn's (user, assistant) pair is the newest pair of the stored history
\* and the history is already trimmed to 40.
C18_RecordedBeforeDelivered ==
    \A t \in MsgTasks :
        (task[t].pc = "reply" \/ task[t].delivered = Generated(task[t].user_message))
            => /\ Len(History(task[t].user_id)) <= HistoryMax
               /\ LastN(History(task[t].user_id), 2)
                     = <<Turn("user", task[t].user_message),
                         Turn("assistant", Generated(task[t].user_message))>>

\* The reply of an exchange that made the history pass 40 has been sent.
C18_Witness ==
    \E t \in MsgTasks :
        /\ task[t].pc = "done" /\ task[t].delivered = Generated(task[t].user_message)
        /\ Len(exchanges[task[t].user_id]) > PairsKept

\* C19: when the typing indicator cannot be sent the fault leaves
\* handle_message: no request is assembled, the backend is not called, the
\* turn stores nothing, sends nothing and logs no caught error.
C19_IndicatorFaultEndsTurn ==
    \A t \in MsgTasks :
        "typing" \in task[t].faultAt =>
            /\ task[t].pc = "raised"
            /\ ~task[t].indicator
            /\ task[t].calls = 0 /\ task[t].outcome = "none"
            /\ task[t].messages = <<>>
            /\ task[t].delivered = NoneVal
            /\ Turn("user", task[t].user_message) \notin Range(History(task[t].user_id))
            /\ \A i \in DOMAIN task[t].logged : task[t].logged[i][1] # "error"

\* The indicator of a turn of a user who has a history could not be sent.
C19_Witness ==
    \E t \in MsgTasks :
        /\ task[t].faultAt = {"typing"} /\ task[t].pc = "raised"
        /\ Len(History(task[t].user_id)) = 2

====
